---- MODULE Spec2Model ----
(***************************************************************************)
(* Model of src/Ecosystem/Connector/Main_Asset.py: class IBAPI(EWrapper,   *)
(* EClient), whose only own code is the constructor                        *)
(*     def __init__(self): EClient.__init__(self, self)                    *)
(* Objects are identified by small integers (object identity).  The code   *)
(* of the class is IBAPI_init; the base class EClient (its initializer,    *)
(* its request methods and its dispatch of replies to the registered       *)
(* wrapper) belongs to the external ibapi package, which the repository    *)
(* imports and does not contain: those definitions follow the contract     *)
(* the specification describes for it.                                     *)
(***************************************************************************)
EXTENDS Integers, Sequences, FiniteSets

\* ---- bounds of the model ------------------------------------------------
MaxInstances == 2
MaxRequests == 2

Instances == 1..MaxInstances

\* ---- values -------------------------------------------------------------
\* The callback target of an object whose EClient half was never initialised.
NoTarget == 0
\* Outcome of a call into the library: "ok", or the exception it raised.
LibErrors == {"OSError", "TypeError"}
Outcomes == {"ok"} \cup LibErrors

VARIABLES
  status,     \* status[i]: "none" (no such object), "constructed", "failed"
  wrapper,    \* wrapper[i]: the callback target registered in i's EClient half
  initCalls,  \* initCalls[i]: the base initializers IBAPI.__init__ ran on i
  libRaised,  \* libRaised[i]: what the library's initializer produced for i
  callerSaw,  \* callerSaw[i]: what the caller of IBAPI() observed
  nextId,     \* the next request id
  sent,       \* requests handed to the gateway
  inflight,   \* replies generated by the gateway, not yet dispatched
  delivered,  \* replies dispatched to a wrapper
  lastOp      \* outcome of the last inherited request method call

vars == <<status, wrapper, initCalls, libRaised, callerSaw, nextId, sent,
          inflight, delivered, lastOp>>

\* ---- the library (ibapi.client.EClient), from the specification ---------
\* The part of the program state a constructor can touch.
Heap == [wrapper |-> wrapper, calls |-> initCalls, sent |-> sent,
         nextId |-> nextId, raised |-> "ok"]

\* EClient.__init__(self, wrapper): registers `wrapper` as the callback
\* target of self's request-issuing half; issues no request.  When it fails
\* the exception leaves the call and nothing is registered.
EClient_init(h, self, w, out) ==
  LET called == [h EXCEPT !.calls[self] = Append(@, <<"EClient", w>>)]
  IN  IF h.raised # "ok" THEN h
      ELSE IF out = "ok" THEN [called EXCEPT !.wrapper[self] = w]
      ELSE [called EXCEPT !.raised = out]

\* EWrapper.__init__(self): the callback half's own initializer.
EWrapper_init(h, self) ==
  IF h.raised # "ok" THEN h
  ELSE [h EXCEPT !.calls[self] = Append(@, <<"EWrapper", NoTarget>>)]

\* An inherited request method of EClient: hands one request to the gateway.
EClient_request(h, self) ==
  [h EXCEPT !.sent = @ \cup {[id |-> h.nextId, issuer |-> self,
                              target |-> h.wrapper[self]]},
            !.nextId = @ + 1]

\* ---- the class (Main_Asset.py) ------------------------------------------
\* Deviations of the constructor used to test the properties below.
IBAPI_init_Forgotten(h, self, out) == h

IBAPI_init_FreshWrapper(h, self, out) == EClient_init(h, self, -self, out)

IBAPI_init_Shared(h, self, out) ==
  LET h1 == EClient_init(h, self, self, out)
  IN  IF h1.raised # "ok" THEN h1
      ELSE [h1 EXCEPT !.wrapper = [j \in Instances |->
                                     IF h.wrapper[j] = NoTarget /\ j # self
                                     THEN NoTarget ELSE self]]

IBAPI_init_Requests(h, self, out) ==
  LET h1 == EClient_init(h, self, self, out)
  IN  IF h1.raised # "ok" THEN h1 ELSE EClient_request(h1, self)

IBAPI_init_Translates(h, self, out) ==
  LET h1 == EClient_init(h, self, self, out)
  IN  IF h1.raised # "ok" THEN [h1 EXCEPT !.raised = "ConnectorError"] ELSE h1

IBAPI_init_BothBases(h, self, out) ==
  EClient_init(EWrapper_init(h, self), self, self, out)

\* IBAPI.__init__(self): EClient.__init__(self, self), and nothing else.
IBAPI_init(h, self, out) == EClient_init(h, self, self, out)

\* A request method looked up on an IBAPI object: the class defines none of
\* its own, so the call is EClient's and its outcome is the caller's.
IBAPI_request(h, self, out) ==
  IF out = "ok" THEN EClient_request(h, self) ELSE [h EXCEPT !.raised = out]

\* ---- initial state: no object exists ------------------------------------
Init ==
  /\ status = [i \in Instances |-> "none"]
  /\ wrapper = [i \in Instances |-> NoTarget]
  /\ initCalls = [i \in Instances |-> <<>>]
  /\ libRaised = [i \in Instances |-> "ok"]
  /\ callerSaw = [i \in Instances |-> "ok"]
  /\ nextId = 1
  /\ sent = {}
  /\ inflight = {}
  /\ delivered = {}
  /\ lastOp = [issuer |-> NoTarget, lib |-> "ok", caller |-> "ok"]

\* ---- operations ---------------------------------------------------------
\* c = IBAPI(): a new object i is allocated and IBAPI.__init__(i) runs; the
\* caller gets the object when __init__ returns, the exception otherwise.
Construct(i) ==
  /\ status[i] = "none"
  /\ \E out \in Outcomes :
       LET h == IBAPI_init(Heap, i, out)
       IN  /\ wrapper' = h.wrapper
           /\ initCalls' = h.calls
           /\ sent' = h.sent
           /\ nextId' = h.nextId
           /\ libRaised' = [libRaised EXCEPT ![i] = out]
           /\ callerSaw' = [callerSaw EXCEPT ![i] = h.raised]
           /\ status' = [status EXCEPT ![i] =
                           IF h.raised = "ok" THEN "constructed" ELSE "failed"]
  /\ UNCHANGED <<inflight, delivered, lastOp>>

\* The caller flow: c.req...() on an object the constructor returned.
Request(i) ==
  /\ status[i] = "constructed"
  /\ nextId <= MaxRequests
  /\ \E out \in Outcomes :
       LET h == IBAPI_request(Heap, i, out)
       IN  /\ wrapper' = h.wrapper
           /\ sent' = h.sent
           /\ nextId' = h.nextId
           /\ lastOp' = [issuer |-> i, lib |-> out, caller |-> h.raised]
  /\ UNCHANGED <<status, initCalls, libRaised, callerSaw, inflight, delivered>>

\* The gateway answers a request on the connection it arrived on.
Reply(r) ==
  /\ r \in sent
  /\ \A m \in inflight \cup delivered : m.req # r.id
  /\ inflight' = inflight \cup {[req |-> r.id, issuer |-> r.issuer]}
  /\ UNCHANGED <<status, wrapper, initCalls, libRaised, callerSaw, nextId,
                 sent, delivered, lastOp>>

\* The inbound listener flow of the issuing client dispatches one reply to
\* the callback target registered in that client.
Deliver(m) ==
  /\ m \in inflight
  /\ inflight' = inflight \ {m}
  /\ delivered' = delivered \cup {[req |-> m.req, issuer |-> m.issuer,
                                   target |-> wrapper[m.issuer],
                                   seen |-> nextId - 1]}
  /\ UNCHANGED <<status, wrapper, initCalls, libRaised, callerSaw, nextId,
                 sent, lastOp>>

Next ==
  \/ \E i \in Instances : Construct(i)
  \/ \E i \in Instances : Request(i)
  \/ \E r \in sent : Reply(r)
  \/ \E m \in inflight : Deliver(m)

Spec == Init /\ [][Next]_vars

\* ---- properties ---------------------------------------------------------
Constructed == {i \in Instances : status[i] = "constructed"}

\* C1, binding invariant: once IBAPI() has returned object i, the callback
\* target registered in i's EClient half is the object i itself.
BindingInvariant == \A i \in Constructed : wrapper[i] = i

BindingWitness ==
  /\ Constructed = Instances
  /\ \A i \in Instances : wrapper[i] = i

\* C2, reply routing: the target the dispatcher uses for a pending reply, and
\* the target every dispatched reply went to, is the object that issued the
\* request.
ReplyRouting ==
  /\ \A m \in inflight : wrapper[m.issuer] = m.issuer
  /\ \A d \in delivered : d.target = d.issuer

ReplyRoutingWitness ==
  /\ \E m \in inflight : wrapper[m.issuer] = m.issuer
  /\ \E d \in delivered : d.target = d.issuer

\* C3, wiring precedes requests: no request was issued by an object whose
\* callback target was unset when the request was issued, or is unset now.
WiringPrecedesRequests ==
  \A r \in sent : r.target # NoTarget /\ wrapper[r.issuer] # NoTarget

WiringWitness ==
  /\ Cardinality(sent) = MaxRequests
  /\ \A r \in sent : r.target = r.issuer

\* C4, no side effects on construction: a step that constructs an object
\* hands no request to the gateway, and when the library's initializer
\* succeeds the constructor returns the object without raising.
NoSideEffectsOnConstruction ==
  [][\A i \in Instances :
       (status[i] = "none" /\ status'[i] # "none") =>
          /\ sent' = sent
          /\ nextId' = nextId
          /\ (libRaised'[i] = "ok" =>
                status'[i] = "constructed" /\ callerSaw'[i] = "ok")]_vars

NoSideEffectsWitness ==
  /\ sent # {}
  /\ \E i \in Constructed : libRaised[i] = "ok" /\ \A r \in sent : r.issuer # i

\* C6, error propagation: what the caller of the constructor, or of an
\* inherited request method, observes is exactly what the library produced.
ErrorPropagation ==
  /\ \A i \in Instances : callerSaw[i] = libRaised[i]
  /\ lastOp.caller = lastOp.lib

ErrorPropagationWitness ==
  /\ \E i \in Instances :
       status[i] = "failed" /\ libRaised[i] = "OSError" /\ callerSaw[i] = "OSError"
  /\ lastOp.lib = "TypeError" /\ lastOp.caller = "TypeError"

\* C7, trivial state machine: a constructed object stays constructed, and no
\* step changes or clears its callback binding.
BindingNeverChanges ==
  [][\A i \in Instances :
       status[i] = "constructed" =>
          status'[i] = "constructed" /\ wrapper'[i] = wrapper[i]]_vars

BindingNeverChangesWitness ==
  /\ Constructed = Instances
  /\ Cardinality(delivered) = MaxRequests
  /\ \A i \in Instances : wrapper[i] = i

\* C8, routing under separate flows: every dispatched reply reached the
\* object that issued its request, and neither flow waits for the other: a
\* pending reply can be dispatched whatever requests follow, and a request
\* can be issued whatever replies are pending.
RoutingUnderSeparateFlows ==
  /\ \A d \in delivered : d.target = d.issuer /\ d.issuer \in Constructed
  /\ \A m \in inflight : ENABLED Deliver(m)
  /\ \A i \in Constructed : nextId <= MaxRequests => ENABLED Request(i)

SeparateFlowsWitness ==
  \E d, e \in delivered :
     /\ d.req < d.seen
     /\ e.req = e.seen
     /\ d.target = d.issuer /\ e.target = e.issuer

\* C9, instance isolation: with several objects constructed, each object's
\* callback target is the object itself and never another object,
\* constructing an object leaves every other object's binding as it was, and
\* every reply is dispatched to its issuer and never to another object.
IsolationInv ==
  /\ \A i \in Constructed :
        wrapper[i] = i /\ \A j \in Instances \ {i} : wrapper[i] # j
  /\ \A d \in delivered :
        d.target = d.issuer /\ \A j \in Instances \ {d.issuer} : d.target # j

ConstructLeavesOthers ==
  \A j \in Instances :
     (status[j] = "none" /\ status'[j] # "none") =>
        \A i \in Instances \ {j} : wrapper'[i] = wrapper[i]

InstanceIsolation == [](IsolationInv) /\ [][ConstructLeavesOthers]_vars

InstanceIsolationWitness ==
  /\ Constructed = Instances
  /\ \A i \in Instances : \E d \in delivered : d.issuer = i /\ d.target = i

\* C10, one-sided initialisation: the constructor runs exactly one base
\* initializer, EClient's, with the object itself as the callback target;
\* EWrapper's initializer is not run.
OneSidedInitialization ==
  \A i \in Instances :
     status[i] # "none" => initCalls[i] = << <<"EClient", i>> >>

OneSidedWitness ==
  \E i \in Constructed : initCalls[i] = << <<"EClient", i>> >>

====
